---- MODULE Spec2Model ----
(***************************************************************************)
(* A model of django_cohort_analysis (cohorts.py, metrics.py).             *)
(*                                                                         *)
(* A datetime is an integer number of ticks since midnight of Monday       *)
(* 2018-12-03; a day has TicksPerDay ticks, so a datetime carries a time   *)
(* of day.  A timedelta is a number of ticks.  A queryset is the set of    *)
(* the creation times of its rows (a row is identified by date_created).   *)
(* A str is the sequence of its code points.                               *)
(***************************************************************************)
EXTENDS Integers, Sequences, FiniteSets, TLC

\* ------------------------------------------------------------------ bounds
TicksPerDay == 2
MaxSpanDays == 22
MaxTableStride == 2
MaxMetrics == 2
MaxCohorts == 2

\* --------------------------------------------------------------- datetime
DaysPerWeek == 7

timedelta_days(days) == days * TicksPerDay

timedelta_weeks_alt(weeks) == weeks * (DaysPerWeek - 1) * TicksPerDay
timedelta_weeks(weeks) == weeks * DaysPerWeek * TicksPerDay

\* datetime.weekday(): Monday is 0, Sunday is 6
weekday(date) == (date \div TicksPerDay) % DaysPerWeek

\* the day number of 1 January of a year, counted from 2018-12-03
Jan1(year) ==
    CASE year = 2017 -> -701
      [] year = 2018 -> -336
      [] year = 2019 -> 29
      [] year = 2020 -> 394
      [] year = 2021 -> 760

YearOf(day) ==
    IF day < Jan1(2018) THEN 2017
    ELSE IF day < Jan1(2019) THEN 2018
    ELSE IF day < Jan1(2020) THEN 2019
    ELSE 2020

\* the day number of the Monday that starts ISO week 1 of a year
IsoWeek1Monday(year) ==
    LET firstday == Jan1(year)
        firstweekday == firstday % DaysPerWeek
        week1monday == firstday - firstweekday
    IN  IF firstweekday > 3 THEN week1monday + DaysPerWeek ELSE week1monday

\* datetime.isocalendar()[1]
get_isoweek_from_date(date) ==
    LET today == date \div TicksPerDay
        year == YearOf(today)
        week == (today - IsoWeek1Monday(year)) \div DaysPerWeek
    IN  IF week < 0
        THEN (today - IsoWeek1Monday(year - 1)) \div DaysPerWeek + 1
        ELSE IF week >= 52 /\ today >= IsoWeek1Monday(year + 1)
        THEN 1
        ELSE week + 1

\* ------------------------------------------------------------------- str
Underscore == <<95>>
Space == <<32>>

IsLower(c) == c >= 97 /\ c <= 122
IsUpper(c) == c >= 65 /\ c <= 90
IsCased(c) == IsLower(c) \/ IsUpper(c)
Upper(c) == IF IsLower(c) THEN c - 32 ELSE c
Lower(c) == IF IsUpper(c) THEN c + 32 ELSE c

\* str.replace('_', ' ')
ReplaceUnderscore(string) ==
    [i \in 1..Len(string) |-> IF string[i] = Underscore[1] THEN Space[1] ELSE string[i]]

\* str.title(): a cased character is upper-cased after an uncased one (or at
\* the start) and lower-cased after a cased one
Title(string) ==
    [i \in 1..Len(string) |->
        IF i > 1 /\ IsCased(string[i - 1]) THEN Lower(string[i]) ELSE Upper(string[i])]

snake_case_to_title(string) == Title(ReplaceUnderscore(string))

\* the order of str: code point by code point, a proper prefix first
RECURSIVE StrLess(_, _)
StrLess(a, b) ==
    IF b = <<>> THEN FALSE
    ELSE IF a = <<>> THEN TRUE
    ELSE IF a[1] # b[1] THEN a[1] < b[1]
    ELSE StrLess(Tail(a), Tail(b))

\* ------------------------------------------------------- cohorts.py: dates
round_date_down(date_to_round) ==
    date_to_round - timedelta_days(weekday(date_to_round))

round_date_up(date_to_round) ==
    date_to_round - timedelta_days(DaysPerWeek - weekday(date_to_round))

stretch_to_rounded_date_range(start, end) ==
    <<round_date_down(start), round_date_up(end)>>

window_length == 6

get_time_window_from_date_alt(date) == <<date, date + timedelta_days(window_length + 1)>>
get_time_window_from_date(date) == <<date, date + timedelta_days(window_length)>>

Cohort(queryset, start, end) ==
    [start_date |-> start, end_date |-> end, queryset |-> queryset]

\* QuerySet.filter(date_created__range=(a, b)): SQL BETWEEN, both ends included
extract_instances_in_date_range_alt(model_instances, time_window_start, time_window_end) ==
    {t \in model_instances : time_window_start <= t /\ t < time_window_end}
extract_instances_in_date_range(model_instances, time_window_start, time_window_end) ==
    {t \in model_instances : time_window_start <= t /\ t <= time_window_end}

\* ------------------------------------------------------- metric modules
\* 'example_metric', 'a', 'aB', 'a_b'
example_metric_name == <<101, 120, 97, 109, 112, 108, 101, 95, 109, 101, 116, 114, 105, 99>>
FunctionNames == {example_metric_name, <<97>>, <<97, 66>>, <<97, 95, 98>>}

\* a module is what import_module finds under a name: nothing (ImportError),
\* or a namespace whose functions are known by their names
NotFound == [found |-> FALSE, functions |-> {}]
Module(functions) == [found |-> TRUE, functions |-> functions]
\* metrics.py as shipped
ShippedMetrics == Module({example_metric_name})

\* the function object bound to a name: metrics.example_metric, or a metric
\* the user wrote
FunctionOf(name) == IF name = example_metric_name THEN "example_metric" ELSE "user_metric"

\* the order of (name, function) tuples; names in a namespace are distinct,
\* so the functions are never compared
TupleLess(a, b) == StrLess(a[1], b[1])

\* inspect.getmembers(module, isfunction): the (name, function) pairs, by name
RECURSIVE getmembers(_)
getmembers(functions) ==
    IF functions = {} THEN <<>>
    ELSE LET first == CHOOSE n \in functions :
                          \A m \in functions \ {n} : StrLess(n, m)
         IN  <<<<first, FunctionOf(first)>>>> \o getmembers(functions \ {first})

\* sorted(list): insertion into the sorted rest
RECURSIVE Insert(_, _)
Insert(x, list) ==
    IF list = <<>> THEN <<x>>
    ELSE IF TupleLess(list[1], x) THEN <<list[1]>> \o Insert(x, Tail(list))
    ELSE <<x>> \o list

RECURSIVE sorted(_)
sorted(list) == IF list = <<>> THEN <<>> ELSE Insert(list[1], sorted(Tail(list)))

Reversed(list) == [i \in 1..Len(list) |-> list[Len(list) + 1 - i]]

get_file_or_default(file) == IF file # "None" THEN file ELSE "cohorts.metrics"

get_sorted_metric_function_tuples_alt(metrics_module) ==
    Reversed(sorted(getmembers(metrics_module.functions)))
get_sorted_metric_function_tuples(metrics_module) ==
    sorted(getmembers(metrics_module.functions))

\* a call's outcome: the value returned or the exception raised
Running == [kind |-> "running", exc |-> "", value |-> <<>>]
Return(value) == [kind |-> "return", exc |-> "", value |-> value]
Raise(exc) == [kind |-> "raise", exc |-> exc, value |-> <<>>]

\* importlib.import_module under the installed modules
import_module(installed, name) ==
    IF name \in DOMAIN installed THEN installed[name] ELSE NotFound

get_metrics_from_file_alt(installed, file) ==
    LET module == import_module(installed, file)
    IN  IF ~module.found
        THEN Raise("NoMetricFileFound")
        ELSE Return(get_sorted_metric_function_tuples(module))
get_metrics_from_file(installed, file) ==
    LET module == import_module(installed, file)
    IN  IF ~module.found
        THEN Raise("NoMetricFileFound")
        ELSE IF get_sorted_metric_function_tuples(module) = <<>>
        THEN Raise("NoMetricFunctionsFound")
        ELSE Return(get_sorted_metric_function_tuples(module))

\* --------------------------------------------------------------- metrics.py
\* example_metric: once the while loop is entered, the count is appended and
\* then window_start_date += window_end_date + timedelta(days=1) adds a
\* datetime to a datetime, which raises TypeError
example_metric(cohort, start, end) ==
    LET result == <<>>
        window_start_date == start
        window_end_date == window_start_date + timedelta_weeks(1)
    IN  IF window_end_date < end
        THEN Raise("TypeError")
        ELSE Return(result)

\* what calling a metric function may do: example_metric does what its code
\* does, a user's metric returns a result or raises
Invoke(function, cohort, start, end) ==
    IF function = "example_metric"
    THEN {example_metric(cohort, start, end)}
    ELSE {Return(<<Cardinality(cohort.queryset)>>), Raise("MetricError")}

create_default_dict_for_cohort(cohort) ==
    [born_week |-> get_isoweek_from_date(cohort.start_date), analysis |-> <<>>]

\* map_metric_to_cohort, given the outcome of metric[1](cohort, cohort.start_date, end_date)
map_metric_to_cohort(metric, called) ==
    IF called.kind = "raise"
    THEN called
    ELSE Return([function_name |-> snake_case_to_title(metric[1]),
                 analysis_result |-> called.value])

\* ------------------------------------------------------------------ state
VARIABLES
    entry,              \* the function the caller called
    pc,                 \* the position of the call in the code
    call,               \* the caller's arguments start_date, end_date, metric_file
    model,              \* the Django model: its table and when it raises DoesNotExist
    modules,            \* what import_module resolves a module name to
    start_date,         \* the start_date parameter of the running function
    end_date,           \* the end_date parameter of the running function
    metric_file,        \* the metric_file parameter of the running function
    cohorts,            \* the list of Cohort being built, then being analysed
    time_window_start,
    time_window_end,
    all_model_instances,
    metrics,            \* analyze_cohorts: the loaded (name, function) tuples
    analysis,           \* analyze_cohorts: the reports appended so far
    cohort_analysis_dict,
    ci,                 \* analyze_cohorts: index of the cohort of the outer for
    mi,                 \* analyze_cohorts: index of the metric of the inner for
    outcome,            \* what the caller got: a return value or an exception
    filter_calls,       \* how many times QuerySet.filter ran
    loads,              \* how many times get_metrics_from_file ran
    invocations         \* the metric calls made, in order, each with its outcome

vars == <<entry, pc, call, model, modules, start_date, end_date, metric_file, cohorts,
          time_window_start, time_window_end, all_model_instances, metrics, analysis,
          cohort_analysis_dict, ci, mi, outcome, filter_calls, loads, invocations>>

cohort_vars == <<cohorts, time_window_start, time_window_end, all_model_instances,
                 filter_calls>>
analyze_vars == <<metrics, analysis, cohort_analysis_dict, ci, mi, loads, invocations>>
env_vars == <<entry, call, model, modules>>

None == "None"
NoDict == [born_week |-> 0, analysis |-> <<>>]

\* ------------------------------------------------------------ input sets
\* every weekday and time of day of the week of 2018-12-17
StartDates == (2 * DaysPerWeek * TicksPerDay)..(3 * DaysPerWeek * TicksPerDay - 1)
Spans == 0..(MaxSpanDays * TicksPerDay)
LastTick == (3 * DaysPerWeek + MaxSpanDays) * TicksPerDay

\* the tables a model may hold: a row every k ticks, or no row
Tables == {{t \in 0..LastTick : t % k = 0} : k \in 1..MaxTableStride} \cup {{}}
\* "no": the model exists; "all": objects.all() raises DoesNotExist;
\* "filter": the queryset raises DoesNotExist when it is filtered
Missing == {"no", "all", "filter"}
Models == [table : Tables, missing : Missing]

ModuleNames == {"cohorts.metrics", "custom.metrics"}
NoModules == [n \in ModuleNames |-> NotFound]
Namespaces == {ns \in SUBSET FunctionNames : Cardinality(ns) <= MaxMetrics}
\* the caller's metric_file with the modules installed: the default module is
\* absent or the shipped one, a custom module is absent or holds any namespace
MetricSetups ==
    {<<None, [n \in ModuleNames |-> IF n = "cohorts.metrics" THEN d ELSE NotFound]>> :
        d \in {NotFound, ShippedMetrics}}
    \cup
    {<<"custom.metrics",
       [n \in ModuleNames |-> IF n = "cohorts.metrics" THEN ShippedMetrics ELSE c]>> :
        c \in {NotFound} \cup {Module(ns) : ns \in Namespaces}}

IdleCohortVars ==
    /\ cohorts = <<>>
    /\ time_window_start = 0
    /\ time_window_end = 0
    /\ all_model_instances = {}
    /\ filter_calls = 0

IdleAnalyzeVars ==
    /\ metrics = <<>>
    /\ analysis = <<>>
    /\ cohort_analysis_dict = NoDict
    /\ ci = 0
    /\ mi = 0
    /\ loads = 0
    /\ invocations = <<>>

\* a caller about to call stretch_to_rounded_date_range(start_date, end_date)
InitStretch ==
    /\ entry = "stretch_to_rounded_date_range"
    /\ pc = "stretch"
    /\ \E s \in StartDates, d \in Spans :
          call = [start_date |-> s, end_date |-> s + d, metric_file |-> None]
    /\ model = [table |-> {}, missing |-> "no"]
    /\ modules = NoModules
    /\ start_date = call.start_date
    /\ end_date = call.end_date
    /\ metric_file = None
    /\ IdleCohortVars
    /\ IdleAnalyzeVars
    /\ outcome = Running

\* a caller about to call get_cohorts_from_model(model, start_date, end_date)
InitCohorts ==
    /\ entry = "get_cohorts_from_model"
    /\ pc = "cohorts_enter"
    /\ \E s \in StartDates, d \in Spans :
          call = [start_date |-> s, end_date |-> s + d, metric_file |-> None]
    /\ model \in Models
    /\ modules = NoModules
    /\ start_date = call.start_date
    /\ end_date = call.end_date
    /\ metric_file = None
    /\ IdleCohortVars
    /\ IdleAnalyzeVars
    /\ outcome = Running

\* ---------------------------------------------------------------- actions
\* stretch_to_rounded_date_range, called by the caller
Stretch ==
    /\ pc = "stretch"
    /\ entry = "stretch_to_rounded_date_range"
    /\ outcome' = Return(stretch_to_rounded_date_range(start_date, end_date))
    /\ pc' = "done"
    /\ UNCHANGED <<env_vars, start_date, end_date, metric_file, cohort_vars, analyze_vars>>

\* what leaves get_cohorts_from_model's try block when exc is raised inside it
except_DoesNotExist_alt(exc) == exc
except_DoesNotExist(exc) == IF exc = "DoesNotExist" THEN "InvalidUserModel" ELSE exc

\* get_cohorts_from_model, lines 127-130
CohortsEnter ==
    /\ pc = "cohorts_enter"
    /\ cohorts' = <<>>
    /\ time_window_start' = get_time_window_from_date(start_date)[1]
    /\ time_window_end' = get_time_window_from_date(start_date)[2]
    /\ IF model.missing = "all"
       THEN /\ outcome' = Raise(except_DoesNotExist("DoesNotExist"))
            /\ pc' = "done"
            /\ UNCHANGED all_model_instances
       ELSE /\ all_model_instances' = model.table
            /\ pc' = "cohorts_while"
            /\ UNCHANGED outcome
    /\ UNCHANGED <<env_vars, start_date, end_date, metric_file, filter_calls, analyze_vars>>

while_condition_alt(window_end, end) == window_end <= end
while_condition(window_end, end) == window_end < end

\* get_cohorts_from_model, lines 131-136: one turn of the while loop
CohortsWhile ==
    /\ pc = "cohorts_while"
    /\ while_condition(time_window_end, end_date)
    /\ filter_calls' = filter_calls + 1
    /\ IF model.missing = "filter"
       THEN /\ outcome' = Raise(except_DoesNotExist("DoesNotExist"))
            /\ pc' = "done"
            /\ UNCHANGED <<cohorts, time_window_start, time_window_end>>
       ELSE /\ cohorts' = Append(cohorts,
                 Cohort(extract_instances_in_date_range(all_model_instances,
                            time_window_start, time_window_end),
                        time_window_start, time_window_end))
            /\ time_window_start' = time_window_start + timedelta_weeks(1)
            /\ time_window_end' = time_window_end + timedelta_weeks(1)
            /\ UNCHANGED <<pc, outcome>>
    /\ UNCHANGED <<env_vars, start_date, end_date, metric_file, all_model_instances,
                   analyze_vars>>

\* get_cohorts_from_model, line 139, back in the caller
CohortsReturn ==
    /\ pc = "cohorts_while"
    /\ ~while_condition(time_window_end, end_date)
    /\ IF entry = "get_cohorts_from_model"
       THEN /\ outcome' = Return(cohorts)
            /\ pc' = "done"
       ELSE /\ pc' = "analyze_enter"
            /\ UNCHANGED outcome
    /\ UNCHANGED <<env_vars, start_date, end_date, metric_file, cohort_vars, analyze_vars>>

\* analyze_cohorts_for_model, lines 229-231: round, default, call get_cohorts_from_model
ForModelEnter ==
    /\ pc = "for_model_enter"
    /\ start_date' = stretch_to_rounded_date_range(start_date, end_date)[1]
    /\ end_date' = stretch_to_rounded_date_range(start_date, end_date)[2]
    /\ metric_file' = get_file_or_default(metric_file)
    /\ pc' = "cohorts_enter"
    /\ UNCHANGED <<env_vars, cohort_vars, analyze_vars, outcome>>

\* analyze_cohorts, lines 208-209
AnalyzeEnter ==
    /\ pc = "analyze_enter"
    /\ analysis' = <<>>
    /\ loads' = loads + 1
    /\ LET loaded == get_metrics_from_file(modules, metric_file)
       IN  IF loaded.kind = "raise"
           THEN /\ outcome' = loaded
                /\ pc' = "done"
                /\ UNCHANGED <<metrics, ci>>
           ELSE /\ metrics' = loaded.value
                /\ ci' = 1
                /\ pc' = "analyze_for_cohort"
                /\ UNCHANGED outcome
    /\ UNCHANGED <<env_vars, start_date, end_date, metric_file, cohort_vars,
                   cohort_analysis_dict, mi, invocations>>

\* analyze_cohorts, lines 210-211: the next cohort of the outer for
AnalyzeForCohort ==
    /\ pc = "analyze_for_cohort"
    /\ ci <= Len(cohorts)
    /\ cohort_analysis_dict' = create_default_dict_for_cohort(cohorts[ci])
    /\ mi' = 1
    /\ pc' = "analyze_for_metric"
    /\ UNCHANGED <<env_vars, start_date, end_date, metric_file, cohort_vars, metrics,
                   analysis, ci, loads, invocations, outcome>>

\* an exception of a metric leaves analyze_cohorts as it is: nothing catches it
uncaught_alt(raised, partial) == Return(partial)
uncaught(raised, partial) == raised

\* analyze_cohorts, lines 212-214: the next metric of the inner for
AnalyzeForMetric ==
    /\ pc = "analyze_for_metric"
    /\ mi <= Len(metrics)
    /\ \E called \in Invoke(metrics[mi][2], cohorts[ci], cohorts[ci].start_date, end_date) :
          LET metric_analysis == map_metric_to_cohort(metrics[mi], called)
          IN  /\ invocations' = Append(invocations,
                     [name |-> metrics[mi][1], cohort |-> ci,
                      start |-> cohorts[ci].start_date, end |-> end_date,
                      count |-> Cardinality(cohorts[ci].queryset),
                      outcome |-> called])
              /\ IF metric_analysis.kind = "raise"
                 THEN /\ outcome' = uncaught(metric_analysis, analysis)
                      /\ pc' = "done"
                      /\ UNCHANGED <<cohort_analysis_dict, mi>>
                 ELSE /\ cohort_analysis_dict' =
                            [cohort_analysis_dict EXCEPT
                                !.analysis = Append(@, metric_analysis.value)]
                      /\ mi' = mi + 1
                      /\ UNCHANGED <<pc, outcome>>
    /\ UNCHANGED <<env_vars, start_date, end_date, metric_file, cohort_vars, metrics,
                   analysis, ci, loads>>

\* analyze_cohorts, line 215: the inner for is over
AnalyzeAppend ==
    /\ pc = "analyze_for_metric"
    /\ mi > Len(metrics)
    /\ analysis' = Append(analysis, cohort_analysis_dict)
    /\ ci' = ci + 1
    /\ pc' = "analyze_for_cohort"
    /\ UNCHANGED <<env_vars, start_date, end_date, metric_file, cohort_vars, metrics,
                   cohort_analysis_dict, mi, loads, invocations, outcome>>

\* analyze_cohorts, line 216 (and analyze_cohorts_for_model, line 233)
AnalyzeReturn ==
    /\ pc = "analyze_for_cohort"
    /\ ci > Len(cohorts)
    /\ outcome' = Return(analysis)
    /\ pc' = "done"
    /\ UNCHANGED <<env_vars, start_date, end_date, metric_file, cohort_vars, analyze_vars>>

\* the cohorts a caller may hand to analyze_cohorts: any list, in any order,
\* of one-week cohorts over a table with a row at every tick
CohortStarts == {k * TicksPerDay : k \in {3 * DaysPerWeek, 4 * DaysPerWeek, 4 * DaysPerWeek + 2}}
CohortPool ==
    {Cohort(extract_instances_in_date_range(0..LastTick, s, s + timedelta_days(window_length)),
            s, s + timedelta_days(window_length)) : s \in CohortStarts}
CohortLists == UNION {[1..n -> CohortPool] : n \in 0..MaxCohorts}
AnalyzeEnds == {k * DaysPerWeek * TicksPerDay : k \in 4..6}

\* a caller about to call analyze_cohorts(cohorts, metric_file, start_date, end_date)
InitAnalyze ==
    /\ entry = "analyze_cohorts"
    /\ pc = "analyze_enter"
    /\ \E setup \in MetricSetups, e \in AnalyzeEnds :
          /\ call = [start_date |-> 3 * DaysPerWeek * TicksPerDay, end_date |-> e,
                     metric_file |-> get_file_or_default(setup[1])]
          /\ modules = setup[2]
    /\ model = [table |-> 0..LastTick, missing |-> "no"]
    /\ start_date = call.start_date
    /\ end_date = call.end_date
    /\ metric_file = call.metric_file
    /\ cohorts \in CohortLists
    /\ time_window_start = 0
    /\ time_window_end = 0
    /\ all_model_instances = {}
    /\ filter_calls = 0
    /\ IdleAnalyzeVars
    /\ outcome = Running

\* a caller about to call analyze_cohorts_for_model(model, start_date, end_date, metric_file)
ForModelStarts == {k * TicksPerDay + 1 : k \in {2 * DaysPerWeek, 2 * DaysPerWeek + 3}}
InitForModel ==
    /\ entry = "analyze_cohorts_for_model"
    /\ pc = "for_model_enter"
    /\ \E setup \in MetricSetups, s \in ForModelStarts, d \in Spans :
          /\ call = [start_date |-> s, end_date |-> s + d, metric_file |-> setup[1]]
          /\ modules = setup[2]
    /\ model \in [table : {0..LastTick}, missing : Missing]
    /\ start_date = call.start_date
    /\ end_date = call.end_date
    /\ metric_file = call.metric_file
    /\ IdleCohortVars
    /\ IdleAnalyzeVars
    /\ outcome = Running

Init == InitStretch \/ InitCohorts \/ InitAnalyze \/ InitForModel

Next ==
    \/ Stretch
    \/ ForModelEnter
    \/ CohortsEnter
    \/ CohortsWhile
    \/ CohortsReturn
    \/ AnalyzeEnter
    \/ AnalyzeForCohort
    \/ AnalyzeForMetric
    \/ AnalyzeAppend
    \/ AnalyzeReturn

Spec == Init /\ [][Next]_vars

\* ----------------------------------------------------------------- claims
Monday(date) == weekday(date) = 0
Sunday(date) == weekday(date) = 6
OneWeek == DaysPerWeek * TicksPerDay

\* get_cohorts_from_model has just returned its list, the variable cohorts,
\* to the caller or to analyze_cohorts_for_model
CohortsReturned ==
    \/ entry = "get_cohorts_from_model" /\ pc = "done" /\ outcome.kind = "return"
    \/ entry = "analyze_cohorts_for_model" /\ pc = "analyze_enter"

\* the cohorts were built by get_cohorts_from_model from model.table
CohortsBuilt == entry \in {"get_cohorts_from_model", "analyze_cohorts_for_model"}

\* the number of whole weeks from start_date to end_date, when it is one
WholeWeeks == (end_date - start_date) \div OneWeek
SpansWholeWeeks ==
    /\ Monday(start_date)
    /\ (end_date - start_date) % OneWeek = 0
    /\ WholeWeeks >= 1

\* C1 (as claimed): when end_date - start_date >= 7 days, the range returned by
\* stretch_to_rounded_date_range starts on a Monday not after start_date and
\* ends on a Monday not before end_date.
C1_RoundedRangeCoversInput ==
    (/\ entry = "stretch_to_rounded_date_range"
     /\ pc = "done"
     /\ call.end_date - call.start_date >= OneWeek)
    => /\ Monday(outcome.value[1])
       /\ outcome.value[1] <= call.start_date
       /\ Monday(outcome.value[2])
       /\ outcome.value[2] >= call.end_date

\* C2 (as claimed): from a Monday start_date to start_date + 7*N days, N >= 1,
\* get_cohorts_from_model on an existing model returns exactly N - 1 cohorts.
C2_WholeWeeksYieldOneLess ==
    (CohortsReturned /\ model.missing = "no" /\ SpansWholeWeeks)
    => Len(cohorts) = WholeWeeks - 1

\* C2 (amended): from a Monday start_date to start_date + 7*N days, N >= 1,
\* get_cohorts_from_model on an existing model returns exactly N cohorts.
C2_WholeWeeksYieldAsMany ==
    (CohortsReturned /\ model.missing = "no" /\ SpansWholeWeeks)
    => Len(cohorts) = WholeWeeks

C2_Witness ==
    /\ CohortsReturned
    /\ model.missing = "no"
    /\ SpansWholeWeeks
    /\ WholeWeeks = 3
    /\ Len(cohorts) = 3

\* the first cohort starts at start_date and each later one a week after the
\* one before it
StartsStrideOneWeek ==
    /\ cohorts # <<>> => cohorts[1].start_date = start_date
    /\ \A i \in 2..Len(cohorts) :
          cohorts[i].start_date = cohorts[i - 1].start_date + OneWeek

\* C3 (as claimed): in a returned list the first cohort starts at start_date,
\* every cohort ends 7 days after it starts, each later cohort starts 7 days
\* after the one before, and from a Monday start_date every cohort starts and
\* ends on a Monday.
C3_SevenDayWindows ==
    CohortsReturned
    => /\ StartsStrideOneWeek
       /\ \A i \in 1..Len(cohorts) :
             /\ cohorts[i].end_date = cohorts[i].start_date + 7 * TicksPerDay
             /\ Monday(start_date)
                => Monday(cohorts[i].start_date) /\ Monday(cohorts[i].end_date)

\* C3 (amended): in a returned list the first cohort starts at start_date,
\* every cohort ends 6 days after it starts, each later cohort starts 7 days
\* after the one before, and from a Monday start_date every cohort starts on a
\* Monday and ends on a Sunday.
C3_SixDayWindows ==
    CohortsReturned
    => /\ StartsStrideOneWeek
       /\ \A i \in 1..Len(cohorts) :
             /\ cohorts[i].end_date = cohorts[i].start_date + 6 * TicksPerDay
             /\ Monday(start_date)
                => Monday(cohorts[i].start_date) /\ Sunday(cohorts[i].end_date)

C3_Witness ==
    /\ CohortsReturned
    /\ Monday(start_date)
    /\ Len(cohorts) >= 2
    /\ Sunday(cohorts[2].end_date)

\* no row is in two cohorts of the list
CohortsDisjoint ==
    \A i, j \in 1..Len(cohorts) :
        i # j => cohorts[i].queryset \cap cohorts[j].queryset = {}

\* C4 (as claimed): a cohort holds exactly the rows created at a time t with
\* cohort.start_date <= t < cohort.end_date, so a row created at
\* cohort.end_date is not in it, and no row is in two cohorts of a list.
C4_HalfOpenWindow ==
    CohortsBuilt
    => /\ \A i \in 1..Len(cohorts) :
             /\ cohorts[i].queryset =
                    {t \in model.table :
                        cohorts[i].start_date <= t /\ t < cohorts[i].end_date}
             /\ cohorts[i].end_date \notin cohorts[i].queryset
       /\ CohortsDisjoint

\* C4 (amended): a cohort holds exactly the rows created at a time t with
\* cohort.start_date <= t <= cohort.end_date, so a row created at
\* cohort.end_date is in it, and no row is in two cohorts of a list.
C4_ClosedWindow ==
    CohortsBuilt
    => /\ \A i \in 1..Len(cohorts) :
             /\ cohorts[i].queryset =
                    {t \in model.table :
                        cohorts[i].start_date <= t /\ t <= cohorts[i].end_date}
             /\ cohorts[i].end_date \in model.table
                => cohorts[i].end_date \in cohorts[i].queryset
       /\ CohortsDisjoint

C4_Witness ==
    /\ CohortsBuilt
    /\ Len(cohorts) >= 2
    /\ cohorts[1].end_date \in cohorts[1].queryset
    /\ cohorts[2].queryset # {}

\* C5 (as claimed): when end_date - start_date is less than 7 days,
\* get_cohorts_from_model on an existing model returns an empty list and
\* never filters the record source.
C5_UnderSevenDaysEmpty ==
    (/\ entry = "get_cohorts_from_model"
     /\ pc = "done"
     /\ model.missing = "no"
     /\ end_date - start_date < 7 * TicksPerDay)
    => outcome = Return(<<>>) /\ filter_calls = 0

\* C5 (amended): when end_date - start_date is at most 6 days,
\* get_cohorts_from_model on an existing model returns an empty list and
\* never filters the record source.
C5_UpToSixDaysEmpty ==
    (/\ entry = "get_cohorts_from_model"
     /\ pc = "done"
     /\ model.missing = "no"
     /\ end_date - start_date <= 6 * TicksPerDay)
    => outcome = Return(<<>>) /\ filter_calls = 0

C5_Witness ==
    /\ entry = "get_cohorts_from_model"
    /\ pc = "done"
    /\ model.missing = "no"
    /\ ~Monday(start_date)
    /\ start_date % TicksPerDay # 0
    /\ end_date - start_date = 6 * TicksPerDay
    /\ outcome = Return(<<>>)

\* get_metrics_from_file has run on metric_file
MetricsLoaded == loads > 0
LoadErrors == {"NoMetricFileFound", "NoMetricFunctionsFound"}

\* C6: get_metrics_from_file raises NoMetricFileFound when the name resolves
\* to no module, NoMetricFunctionsFound when the module holds no function, and
\* otherwise raises neither and returns a non-empty list with one (name,
\* function) pair for each function of the module.
C6_LoadErrorsDistinguished ==
    MetricsLoaded
    => LET found == metric_file \in DOMAIN modules /\ modules[metric_file].found
       IN  /\ ~found => outcome = Raise("NoMetricFileFound")
           /\ found /\ modules[metric_file].functions = {}
              => outcome = Raise("NoMetricFunctionsFound")
           /\ found /\ modules[metric_file].functions # {}
              => /\ outcome.exc \notin LoadErrors
                 /\ metrics # <<>>
                 /\ {metrics[j][1] : j \in 1..Len(metrics)}
                        = modules[metric_file].functions
                 /\ Len(metrics) = Cardinality(modules[metric_file].functions)

C6_Witness ==
    /\ MetricsLoaded
    /\ modules[metric_file].found
    /\ modules[metric_file].functions = {}
    /\ outcome = Raise("NoMetricFunctionsFound")
    /\ cohorts # <<>>

\* the record source has raised DoesNotExist: from objects.all(), or from the
\* queryset's filter
DoesNotExistReported ==
    \/ model.missing = "all" /\ pc \notin {"for_model_enter", "cohorts_enter"}
    \/ model.missing = "filter" /\ filter_calls > 0

\* C7: once the record source has reported that the model does not exist,
\* get_cohorts_from_model (also under analyze_cohorts_for_model) has raised
\* InvalidUserModel and returned no list, whatever the date range.
C7_MissingModelRaises ==
    (CohortsBuilt /\ DoesNotExistReported)
    => pc = "done" /\ outcome = Raise("InvalidUserModel")

C7_Witness ==
    /\ entry = "get_cohorts_from_model"
    /\ DoesNotExistReported
    /\ end_date - start_date < 6 * TicksPerDay
    /\ filter_calls = 0
    /\ outcome = Raise("InvalidUserModel")

\* the ISO week of a date is the week of its year that holds the Thursday of
\* the date's Monday-to-Sunday week
ThursdayOf(date) == (date \div TicksPerDay) - weekday(date) + 3
IsoWeekOf(date) ==
    (ThursdayOf(date) - Jan1(YearOf(ThursdayOf(date)))) \div DaysPerWeek + 1

AnalyzeReturned ==
    /\ entry \in {"analyze_cohorts", "analyze_cohorts_for_model"}
    /\ pc = "done"
    /\ outcome.kind = "return"

\* C8: the list analyze_cohorts returns has one report for each input cohort,
\* in order; the i-th has born_week the ISO week of the i-th cohort's
\* start_date and an analysis with one entry for each function of the metric
\* module, in ascending order of the functions' names.
C8_OneReportPerCohort ==
    AnalyzeReturned
    => /\ Len(outcome.value) = Len(cohorts)
       /\ \A i \in 1..Len(outcome.value) :
             /\ outcome.value[i].born_week = IsoWeekOf(cohorts[i].start_date)
             /\ Len(outcome.value[i].analysis)
                    = Cardinality(modules[metric_file].functions)
             /\ \A j \in 1..Len(outcome.value[i].analysis) :
                   /\ metrics[j][1] \in modules[metric_file].functions
                   /\ outcome.value[i].analysis[j].function_name
                          = snake_case_to_title(metrics[j][1])
                   /\ \A k \in 1..(j - 1) : StrLess(metrics[k][1], metrics[j][1])

C8_Witness ==
    /\ AnalyzeReturned
    /\ Len(outcome.value) = 2
    /\ outcome.value[1].born_week = 1
    /\ outcome.value[2].born_week = 52
    /\ Len(outcome.value[1].analysis) = 2

\* the metric call that raised, if one did
Raisers == {k \in 1..Len(invocations) : invocations[k].outcome.kind = "raise"}

\* C9: analyze_cohorts loads the metrics once, before it processes a cohort;
\* when the loading fails no metric is called, and when a metric raises, that
\* call is the last one made, the caller gets that exception unchanged and no
\* report list.
C9_FailureAbortsBatch ==
    (entry \in {"analyze_cohorts", "analyze_cohorts_for_model"})
    => /\ loads <= 1
       /\ (ci > 0 \/ invocations # <<>> \/ analysis # <<>>) => loads = 1
       /\ outcome.exc \in LoadErrors => invocations = <<>> /\ analysis = <<>>
       /\ \A k \in Raisers :
             /\ k = Len(invocations)
             /\ pc = "done"
             /\ outcome = invocations[k].outcome
             /\ outcome.kind = "raise"
             /\ outcome.value = <<>>

C9_Witness ==
    /\ entry = "analyze_cohorts"
    /\ Raisers # {}
    /\ Len(cohorts) = 2
    /\ analysis # <<>>
    /\ Len(invocations) = 2 * Len(metrics)
    /\ outcome.kind = "raise"

\* C10 (as claimed): every call of example_metric returns a list whose
\* elements are all the number of rows of the cohort's queryset.
C10_ExampleMetricReturnsCounts ==
    \A k \in 1..Len(invocations) :
        invocations[k].name = example_metric_name
        => /\ invocations[k].outcome.kind = "return"
           /\ \A n \in 1..Len(invocations[k].outcome.value) :
                 invocations[k].outcome.value[n] = invocations[k].count

====
